---- MODULE Spec2Model ----
(***************************************************************************)
(* ESA-ADB, TimeEval-algorithms: the denoising autoencoder's training      *)
(* driver (dae/model.py), the statistical baseline detector                *)
(* (std/algorithm.py) and the windowed isolation-forest detector           *)
(* (subsequence_if/algorithm.py).                                          *)
(*                                                                         *)
(* Three specifications share the module:                                  *)
(*   SpecAE   AutoEn.fit with its three per-epoch callbacks, the archive   *)
(*            replacement of _create_archive, an interrupt and a reader;   *)
(*   SpecStd  std: train and execute runs over one working directory;      *)
(*   SpecIF   subsequence_if: train and execute runs.                      *)
(***************************************************************************)
EXTENDS Integers, Sequences, FiniteSets, TLC

VARIABLES
  \* ---- dae/model.py: one call of AutoEn.fit ----
  pc,            \* position of the training loop inside the current epoch
  epochsDone,    \* epochs whose weights have been trained
  history,       \* val_loss of every epoch trained so far
  esBest,        \* EarlyStopping.best
  esWait,        \* EarlyStopping.wait
  stopTraining,  \* model.stop_training
  mcBest,        \* ModelCheckpoint.best
  check,         \* the checkpoint "check" in the working directory
  tmpZip,        \* the file at f"{model_path}.zip"
  modelFile,     \* the file at model_path
  moves,         \* archives this run has moved to model_path
  stoppedAt,     \* where an interrupt hit the run
  readerSaw,     \* what an external reader of model_path loaded last
  \* ---- std/algorithm.py: runs of the baseline detector ----
  meansFile,     \* <modelOutput>.means.txt
  stdsFile,      \* <modelOutput>.stds.txt
  scoresFile,    \* dataOutput
  stdLast,       \* the running process: its input, its configuration object, its end
  stdTrained,    \* the input of the last training run that persisted a baseline
  \* ---- subsequence_if/algorithm.py: runs of the ensemble detector ----
  ifModel,       \* the pickle at modelOutput / modelInput
  ifScores,      \* dataOutput
  ifLast         \* the running process: its input, its configuration object, its end

aeVars == <<pc, epochsDone, history, esBest, esWait, stopTraining, mcBest, check,
            tmpZip, modelFile, moves, stoppedAt, readerSaw>>
stdVars == <<meansFile, stdsFile, scoresFile, stdLast, stdTrained>>
ifVars == <<ifModel, ifScores, ifLast>>
vars == <<aeVars, stdVars, ifVars>>

(***************************************************************************)
(* Sequences                                                               *)
(***************************************************************************)
Range(s) == {s[i] : i \in 1..Len(s)}

\* Python's list comprehension [x for x in s if Keep(x)]
RECURSIVE Filter(_, _)
Filter(s, keep) ==
  IF s = <<>> THEN <<>>
  ELSE IF Head(s) \in keep THEN <<Head(s)>> \o Filter(Tail(s), keep)
       ELSE Filter(Tail(s), keep)

\* Python's list.index: the first position (0-based) of x in s
IndexOf(s, x) == (CHOOSE i \in 1..Len(s) : s[i] = x /\ \A j \in 1..(i - 1) : s[j] # x) - 1

\* all sequences over S of length 0..n
SeqsUpTo(S, n) == UNION {[1..k -> S] : k \in 0..n}

\* the sequences over S of length 0..n without a repeated element
InjSeqsUpTo(S, n) ==
  {s \in SeqsUpTo(S, n) : \A i, j \in 1..Len(s) : i # j => s[i] # s[j]}

(***************************************************************************)
(* dae/model.py                                                            *)
(***************************************************************************)
\* bounds of the training run: the constructor's epochs and
\* early_stopping_patience, and the validation losses an epoch may report
Epochs == 4
Patience == 2
MaxLoss == 3

\* early_stopping_delta, in the unit the losses are counted in
MinDelta == 1

\* a validation loss: a number, NaN (a diverged epoch), or the +inf the
\* callbacks start their best from
Num(v) == [kind |-> "num", v |-> v]
NaN == [kind |-> "nan", v |-> 0]
Inf == [kind |-> "inf", v |-> 0]
ValLosses == {Num(v) : v \in 1..MaxLoss} \cup {NaN}

\* np.less(a - d, b), the monitor_op of both callbacks for val_loss; a is a
\* reported loss, b a best so far
LessBy(a, d, b) ==
  /\ a.kind = "num"
  /\ \/ b.kind = "inf"
     \/ b.kind = "num" /\ a.v + d < b.v

\* files: the checkpoint directory, the zip under construction, the archive
NoFile == [exists |-> FALSE, complete |-> FALSE, run |-> 0, epoch |-> 0]
Weights(r, e) == [exists |-> TRUE, complete |-> TRUE, run |-> r, epoch |-> e]
\* what an earlier run may have left behind
StaleFile == Weights(0, 1)
StalePartial == [StaleFile EXCEPT !.complete = FALSE]
\* this run writes its own weights
ThisRun == StaleFile.run + 1

InitAEVars ==
  /\ pc = "train"
  /\ epochsDone = 0
  /\ history = <<>>
  /\ esBest = Inf
  /\ esWait = 0
  /\ stopTraining = FALSE
  /\ mcBest = Inf
  /\ check \in {NoFile, StaleFile}
  /\ tmpZip \in {NoFile, StalePartial}
  /\ modelFile \in {NoFile, StaleFile}
  /\ moves = 0
  /\ stoppedAt = "none"
  /\ readerSaw = NoFile

\* Model.fit's loop body: one epoch of training, which ends with val_loss in logs
TrainEpoch ==
  /\ pc = "train"
  /\ epochsDone < Epochs
  /\ ~stopTraining
  /\ \E v \in ValLosses : history' = Append(history, v)
  /\ epochsDone' = epochsDone + 1
  /\ pc' = "early_stopping"
  /\ UNCHANGED <<esBest, esWait, stopTraining, mcBest, check, tmpZip, modelFile,
                 moves, stoppedAt, readerSaw>>
  /\ UNCHANGED <<stdVars, ifVars>>

\* EarlyStopping(patience, min_delta).on_epoch_end
EarlyStoppingOnEpochEnd ==
  /\ pc = "early_stopping"
  /\ LET current == history[epochsDone]
         improved == LessBy(current, MinDelta, esBest)
     IN /\ esBest' = IF improved THEN current ELSE esBest
        /\ esWait' = IF improved THEN 0 ELSE esWait + 1
        /\ stopTraining' =
             (stopTraining \/ (esWait' >= Patience /\ epochsDone > 1))
  /\ pc' = "checkpoint"
  /\ UNCHANGED <<epochsDone, history, mcBest, check, tmpZip, modelFile, moves,
                 stoppedAt, readerSaw>>
  /\ UNCHANGED <<stdVars, ifVars>>

\* a checkpoint callback without save_best_only: every epoch is saved
SaveEveryEpoch(current, best) == TRUE

\* ModelCheckpoint("check", save_best_only=True): save iff np.less(current, best)
SaveBestOnly(current, best) == LessBy(current, 0, best)

\* ModelCheckpoint.on_epoch_end
ModelCheckpointOnEpochEnd ==
  /\ pc = "checkpoint"
  /\ LET current == history[epochsDone]
     IN IF SaveBestOnly(current, mcBest)
        THEN /\ mcBest' = current
             /\ check' = Weights(ThisRun, epochsDone)
        ELSE UNCHANGED <<mcBest, check>>
  /\ pc' = "lambda"
  /\ UNCHANGED <<epochsDone, history, esBest, esWait, stopTraining, tmpZip, modelFile,
                 moves, stoppedAt, readerSaw>>
  /\ UNCHANGED <<stdVars, ifVars>>

\* where the training loop goes after the last callback of an epoch
AfterCallbacks == IF stopTraining \/ epochsDone = Epochs THEN "finished" ELSE "train"

\* LambdaCallback.on_epoch_end: _create_archive("check", model_path) if
\* os.path.exists("check") else None
LambdaOnEpochEnd ==
  /\ pc = "lambda"
  /\ pc' = IF check.exists THEN "make_archive" ELSE AfterCallbacks
  /\ UNCHANGED <<epochsDone, history, esBest, esWait, stopTraining, mcBest, check,
                 tmpZip, modelFile, moves, stoppedAt, readerSaw>>
  /\ UNCHANGED <<stdVars, ifVars>>

\* an archive opened at model_path itself instead of the temporary path
MakeArchiveOpenInPlace ==
  /\ pc = "make_archive"
  /\ modelFile' = [check EXCEPT !.complete = FALSE]
  /\ pc' = "zip_write"
  /\ UNCHANGED <<epochsDone, history, esBest, esWait, stopTraining, mcBest, check,
                 tmpZip, moves, stoppedAt, readerSaw>>
  /\ UNCHANGED <<stdVars, ifVars>>

\* shutil.make_archive(model_path, root_dir="check", format="zip"), first
\* half: the zip file f"{model_path}.zip" is created (or truncated) and the
\* members of "check" are being written to it
MakeArchiveOpen ==
  /\ pc = "make_archive"
  /\ tmpZip' = [check EXCEPT !.complete = FALSE]
  /\ pc' = "zip_write"
  /\ UNCHANGED <<epochsDone, history, esBest, esWait, stopTraining, mcBest, check,
                 modelFile, moves, stoppedAt, readerSaw>>
  /\ UNCHANGED <<stdVars, ifVars>>

\* shutil.make_archive, second half: the last member and the central
\* directory are written and the zip file is closed
MakeArchiveClose ==
  /\ pc = "zip_write"
  /\ tmpZip' = [tmpZip EXCEPT !.complete = TRUE]
  /\ pc' = "move"
  /\ UNCHANGED <<epochsDone, history, esBest, esWait, stopTraining, mcBest, check,
                 modelFile, moves, stoppedAt, readerSaw>>
  /\ UNCHANGED <<stdVars, ifVars>>

\* shutil.move(f"{model_path}.zip", model_path): both paths lie in one
\* directory, so the move is os.rename, which replaces model_path in one step
Move ==
  /\ pc = "move"
  /\ modelFile' = tmpZip
  /\ tmpZip' = NoFile
  /\ moves' = moves + 1
  /\ pc' = AfterCallbacks
  /\ UNCHANGED <<epochsDone, history, esBest, esWait, stopTraining, mcBest, check,
                 stoppedAt, readerSaw>>
  /\ UNCHANGED <<stdVars, ifVars>>

\* the run is stopped from outside (the process is killed), wherever it is
Interrupt ==
  /\ pc \notin {"finished", "interrupted"}
  /\ stoppedAt' = pc
  /\ pc' = "interrupted"
  /\ UNCHANGED <<epochsDone, history, esBest, esWait, stopTraining, mcBest, check,
                 tmpZip, modelFile, moves, readerSaw>>
  /\ UNCHANGED <<stdVars, ifVars>>

\* an external reader opens model_path and loads what is there
ReaderLoad ==
  /\ modelFile.exists
  /\ readerSaw' = modelFile
  /\ UNCHANGED <<pc, epochsDone, history, esBest, esWait, stopTraining, mcBest, check,
                 tmpZip, modelFile, moves, stoppedAt>>
  /\ UNCHANGED <<stdVars, ifVars>>

NextAE ==
  \/ TrainEpoch
  \/ EarlyStoppingOnEpochEnd
  \/ ModelCheckpointOnEpochEnd
  \/ LambdaOnEpochEnd
  \/ MakeArchiveOpen
  \/ MakeArchiveClose
  \/ Move
  \/ Interrupt
  \/ ReaderLoad

(***************************************************************************)
(* std/algorithm.py and subsequence_if/algorithm.py: load_data's channel   *)
(* and label resolution (the same code in both files)                      *)
(***************************************************************************)
\* a column name: a channel, or a label column "is_anomaly" (ch = "") or
\* f"is_anomaly_{ch}"
Channel(c) == [anomaly |-> FALSE, ch |-> c]
IsAnomaly(c) == [anomaly |-> TRUE, ch |-> c]
GlobalLabel == IsAnomaly("")

\* x.startswith("is_anomaly")
StartsWithIsAnomaly(x) == x.anomaly

\* [x for x in columns if x.startswith("is_anomaly")]
AnomalyColumns(columns) == SelectSeq(columns, StartsWithIsAnomaly)

\* columns[:-len(anomaly_columns)]; columns[:-0] is the empty list
DataColumns(columns) ==
  LET n == Len(AnomalyColumns(columns))
  IN IF n = 0 THEN <<>> ELSE SubSeq(columns, 1, Len(columns) - n)

\* the condition of the first branch: target_channels is None or shares no
\* name with data_columns
SelectsAll(columns, request) ==
  \/ ~request.given
  \/ Range(request.names) \cap Range(DataColumns(columns)) = {}

\* config.customParameters.target_channels after the branch
TargetChannels(columns, request) ==
  IF SelectsAll(columns, request)
  THEN DataColumns(columns)
  ELSE Filter(request.names, Range(DataColumns(columns)))

\* [x for x in data_columns if x in set(target_channels)]
AllUsedChannels(columns, request) ==
  Filter(DataColumns(columns), Range(TargetChannels(columns, request)))

\* [f"is_anomaly_{channel}" for channel in all_used_channels]
AllUsedAnomalyColumns(columns, request) ==
  LET used == AllUsedChannels(columns, request)
  IN [i \in 1..Len(used) |-> IsAnomaly(used[i].ch)]

\* len(anomaly_columns) == 1 and anomaly_columns[0] == "is_anomaly"
HasGlobalLabel(columns) ==
  LET ac == AnomalyColumns(columns) IN Len(ac) = 1 /\ ac[1] = GlobalLabel

\* the columns of dataset when load_data reaches "Change channel names to index":
\* untouched in the first branch; in the second, the global label column is
\* copied to every used label column and dropped, and dataset.loc[...] keeps the
\* used channels followed by their label columns (fails: a label column that
\* does not exist)
FrameColumns(columns, request) ==
  LET used == AllUsedChannels(columns, request)
      usedLabels == AllUsedAnomalyColumns(columns, request)
      have == IF HasGlobalLabel(columns)
              THEN (Range(columns) \ {GlobalLabel}) \cup Range(usedLabels)
              ELSE Range(columns)
  IN IF SelectsAll(columns, request)
     THEN [ok |-> TRUE, columns |-> columns]
     ELSE IF Range(usedLabels) \subseteq have
          THEN [ok |-> TRUE, columns |-> used \o usedLabels]
          ELSE [ok |-> FALSE, columns |-> <<>>]

\* the values of column c of that dataset, out of the file's columns col
FrameColumn(columns, request, col, c) ==
  IF ~SelectsAll(columns, request) /\ HasGlobalLabel(columns) /\ c.anomaly
  THEN col[GlobalLabel]
  ELSE col[c]

\* data_columns at "Change channel names to index"
IndexedDataColumns(columns, request) ==
  IF SelectsAll(columns, request)
  THEN DataColumns(columns)
  ELSE AllUsedChannels(columns, request)

\* [data_columns.index(x) for x in target_channels]
TargetChannelIndices(columns, request) ==
  LET tc == TargetChannels(columns, request)
  IN [i \in 1..Len(tc) |-> IndexOf(IndexedDataColumns(columns, request), tc[i])]

\* load_data up to "dataset = dataset.to_numpy()[:, target_channel_indices]":
\* the configuration object's two fields, the label matrix and the selected
\* data matrix (each as its columns' names and values), or the KeyError of
\* dataset.loc[...] / dataset[all_used_anomaly_columns]
Resolve(columns, col, request) ==
  LET frame == FrameColumns(columns, request)
      tc == TargetChannels(columns, request)
      usedLabels == AllUsedAnomalyColumns(columns, request)
      idx == TargetChannelIndices(columns, request)
      none == [outcome |-> "KeyError", target_channels |-> tc,
               target_channel_indices |-> <<>>, labelNames |-> <<>>, labels |-> <<>>,
               dataNames |-> <<>>, data |-> <<>>]
  IN IF ~frame.ok THEN none
     ELSE IF ~(Range(usedLabels) \subseteq Range(frame.columns))
          THEN [none EXCEPT !.target_channel_indices = idx]
          ELSE [outcome |-> "ok",
                target_channels |-> tc,
                target_channel_indices |-> idx,
                labelNames |-> usedLabels,
                labels |-> [i \in 1..Len(usedLabels) |->
                              FrameColumn(columns, request, col, usedLabels[i])],
                dataNames |-> [i \in 1..Len(idx) |-> frame.columns[idx[i] + 1]],
                data |-> [i \in 1..Len(idx) |->
                            FrameColumn(columns, request, col, frame.columns[idx[i] + 1])]]

(***************************************************************************)
(* std/algorithm.py: the baseline detector                                 *)
(***************************************************************************)
\* bounds: rows of an input file, channels of an input file, names in a
\* requested channel list
NRows == 3
MaxChannels == 2
MaxRequest == 2

\* np.float32 (line 37) has a 24-bit significand: the integers below 2^24
\* are float32 values, larger ones are rounded to 24 significant bits
\* (round half to even).  Values here are non-negative integers.
SignificandBits == 24

RECURSIVE Pow2(_)
Pow2(n) == IF n = 0 THEN 1 ELSE 2 * Pow2(n - 1)

\* the distance of neighbouring float32 values around x
RECURSIVE Ulp(_)
Ulp(x) == IF x < Pow2(SignificandBits) THEN 1 ELSE 2 * Ulp(x \div 2)

\* the multiple of u nearest to x, a tie going to the even multiple
NearestMultiple(x, u) ==
  LET q == x \div u
      r == x % u
  IN IF 2 * r > u \/ (2 * r = u /\ q % 2 = 1) THEN (q + 1) * u ELSE q * u

\* the float32 nearest to the integer x
RoundF32(x) == NearestMultiple(x, Ulp(x))

\* np.add.reduce over a float32 array: every partial sum is a float32
RECURSIVE SumF32(_, _)
SumF32(acc, values) ==
  IF values = <<>> THEN acc
  ELSE SumF32(RoundF32(acc + Head(values)), Tail(values))

\* the float32 nearest to s / n.  The quotient is exact, or at least 2^23 where
\* float32 values are the integers; other quotients (a fraction with a
\* float32 significand) are not values of this model.
DivF32(s, n) ==
  LET q == s \div n
      r == s % n
  IN CASE r = 0 -> RoundF32(q)
       [] r # 0 /\ q >= Pow2(SignificandBits - 1) ->
            RoundF32(IF 2 * r > n \/ (2 * r = n /\ q % 2 = 1) THEN q + 1 ELSE q)

\* np.mean of a float32 array: summed in float32, divided by the count,
\* a float32; nan for an empty array
Mean(values) ==
  IF values = <<>> THEN NaN ELSE Num(DivF32(SumF32(0, values), Len(values)))

\* np.std(values.astype(float)): float64; 0 for a constant array, nan for an
\* empty one.  Only constant signals are trained on in this model (the
\* deviation of any other is a square root the integers do not hold).
Std(values) ==
  CASE values = <<>> -> NaN
    [] values # <<>> /\ \A i \in 1..Len(values) : values[i] = values[1] -> Num(0)

\* np.where(train_stds == 0, 1, train_stds)
ZeroToOne(s) == IF s.kind = "num" /\ s.v = 0 THEN Num(1) ELSE s

\* dataset[:, i][labels[:, i] == 0]: the rows kept, and their values
RowsKept(labelColumn) == {r \in 1..Len(labelColumn) : labelColumn[r] = 0}
RECURSIVE Masked(_, _)
Masked(values, labelColumn) ==
  IF values = <<>> THEN <<>>
  ELSE IF Head(labelColumn) = 0
       THEN <<Head(values)>> \o Masked(Tail(values), Tail(labelColumn))
       ELSE Masked(Tail(values), Tail(labelColumn))

\* np.savetxt's "%.18e" of a value: 19 significant decimal digits and a
\* decimal exponent; np.loadtxt's float() of that text
RECURSIVE Digits(_)
Digits(v) == IF v < 10 THEN <<v>> ELSE Digits(v \div 10) \o <<v % 10>>
RECURSIVE DigitsValue(_)
DigitsValue(d) ==
  IF d = <<>> THEN 0 ELSE 10 * DigitsValue(SubSeq(d, 1, Len(d) - 1)) + d[Len(d)]
RECURSIVE Pow10(_)
Pow10(n) == IF n = 0 THEN 1 ELSE 10 * Pow10(n - 1)

\* digits after the decimal point in "%.18e"
Precision == 18

FormatE(x) ==
  IF x.kind = "nan" THEN [nan |-> TRUE, digits |-> <<>>, exp |-> 0]
  ELSE LET d == Digits(x.v)
           kept == SubSeq(d, 1, IF Len(d) > Precision + 1 THEN Precision + 1 ELSE Len(d))
       IN [nan |-> FALSE, digits |-> kept, exp |-> Len(d) - 1]

ParseFloat(t) ==
  IF t.nan THEN NaN
  ELSE Num(DigitsValue(t.digits) * Pow10(t.exp - (Len(t.digits) - 1)))

\* np.savetxt(path, values): one line per value
SaveTxt(values) ==
  [exists |-> TRUE, lines |-> [i \in 1..Len(values) |-> FormatE(values[i])]]
\* np.atleast_1d(np.loadtxt(path))
LoadTxt(file) == [i \in 1..Len(file.lines) |-> ParseFloat(file.lines[i])]
NoTxt == [exists |-> FALSE, lines |-> <<>>]
NoScores == [exists |-> FALSE, rows |-> <<>>]

\* the input files of the model: up to MaxChannels channels in any order,
\* followed by one global label column or one label column per channel;
\* every channel is a constant signal, every label column is clean, marks
\* the first row, or marks every row
ChannelNames == {"a", "b"}
RequestNames == ChannelNames \cup {"z"}
KValues == {7, 11184814}
TolValues == {0, 1, 3}
LabelVectors(rows) ==
  {[r \in 1..rows |-> 0], [r \in 1..rows |-> IF r = 1 THEN 1 ELSE 0],
   [r \in 1..rows |-> 1]}
CleanVectors(rows) == {[r \in 1..rows |-> 0]}

Headers ==
  LET orders == InjSeqsUpTo(ChannelNames, MaxChannels)
      channels(o) == [i \in 1..Len(o) |-> Channel(o[i])]
  IN {channels(o) \o <<GlobalLabel>> : o \in orders}
     \cup {channels(o) \o [i \in 1..Len(o) |-> IsAnomaly(o[i])] : o \in orders \ {<<>>}}

Tables(rows, values, labelVectors) ==
  UNION {
    {[columns |-> h,
      col |-> [c \in Range(h) |->
                 IF c.anomaly THEN lab[c] ELSE [r \in 1..rows |-> k[c]]]] :
       k \in [{c \in Range(h) : ~c.anomaly} -> values],
       lab \in [{c \in Range(h) : c.anomaly} -> labelVectors]} :
    h \in Headers}

\* the files a training run and a scoring run read (a scoring run makes no
\* use of the label values)
TrainTables == Tables(NRows, KValues, LabelVectors(NRows))
ExecuteTables == Tables(NRows, KValues, CleanVectors(NRows))

\* customParameters.target_channels: None, or a list of names
Requests ==
  {[given |-> FALSE, names |-> <<>>]}
  \cup {[given |-> TRUE, names |-> [i \in 1..Len(n) |-> Channel(n[i])]] :
          n \in SeqsUpTo(RequestNames, MaxRequest)}

\* the label column that belongs to channel c in the input file
OwnLabels(table, c) ==
  IF HasGlobalLabel(table.columns) THEN table.col[GlobalLabel]
  ELSE table.col[IsAnomaly(c.ch)]

NoRun ==
  [mode |-> "none", outcome |-> "none", table |-> [columns |-> <<>>, col |-> <<>>],
   request |-> [given |-> FALSE, names |-> <<>>], tol |-> 0,
   target_channels |-> <<>>, target_channel_indices |-> <<>>,
   dataNames |-> <<>>, labelNames |-> <<>>, rowsUsed |-> <<>>]

InitStdVars ==
  /\ meansFile = NoTxt
  /\ stdsFile = NoTxt
  /\ scoresFile = NoScores
  /\ stdLast = NoRun
  /\ stdTrained = <<>>

\* what a run that got through the resolution leaves in the configuration object
Resolved(mode, table, request, tol, r) ==
  [mode |-> mode, outcome |-> r.outcome, table |-> table, request |-> request,
   tol |-> tol, target_channels |-> r.target_channels,
   target_channel_indices |-> r.target_channel_indices,
   dataNames |-> r.dataNames, labelNames |-> r.labelNames, rowsUsed |-> <<>>]

\* load_data's "train" part for a resolution r: the means and the stds of
\* the rows kept, written by np.savetxt
StdTrainWith(table, request, r) ==
  IF r.outcome # "ok"
  THEN /\ stdLast' = Resolved("train", table, request, 0, r)
       /\ UNCHANGED <<meansFile, stdsFile, stdTrained>>
  ELSE IF Len(r.data) > Len(r.labels)
       \* labels[:, i] with i beyond the label matrix
       THEN /\ stdLast' = [Resolved("train", table, request, 0, r) EXCEPT
                             !.outcome = "IndexError"]
            /\ UNCHANGED <<meansFile, stdsFile, stdTrained>>
       ELSE /\ meansFile' =
                 SaveTxt([i \in 1..Len(r.data) |-> Mean(Masked(r.data[i], r.labels[i]))])
            /\ stdsFile' =
                 SaveTxt([i \in 1..Len(r.data) |->
                            ZeroToOne(Std(Masked(r.data[i], r.labels[i])))])
            /\ stdLast' =
                 [Resolved("train", table, request, 0, r) EXCEPT
                    !.rowsUsed = [i \in 1..Len(r.data) |-> RowsKept(r.labels[i])]]
            /\ stdTrained' =
                 [i \in 1..Len(r.data) |->
                    [name |-> r.dataNames[i], k |-> r.data[i][1],
                     clean |-> OwnLabels(table, r.dataNames[i]) \in CleanVectors(NRows)]]

\* train(config): load_data with executionType "train"
StdTrain ==
  /\ stdLast.mode = "none"
  /\ ~meansFile.exists
  /\ \E table \in TrainTables, request \in Requests :
       StdTrainWith(table, request, Resolve(table.columns, table.col, request))
  /\ UNCHANGED scoresFile
  /\ UNCHANGED <<aeVars, ifVars>>

\* numpy's broadcast of a (T, c) matrix against an (m,) vector: the columns
\* of the result, or -1 (ValueError)
BroadcastColumns(c, m) ==
  IF c = m THEN c ELSE IF c = 1 THEN m ELSE IF m = 1 THEN c ELSE 0 - 1

\* (data > train_means + tol * train_stds) | (data < train_means - tol * train_stds)
\* for one cell; a comparison with nan is False
Score(d, m, s, tol) ==
  IF m.kind = "nan" \/ s.kind = "nan" THEN 0
  ELSE IF d > m.v + tol * s.v \/ d < m.v - tol * s.v THEN 1 ELSE 0

\* the score matrix of data against the loaded means and stds, n columns wide
Scores(data, train_means, train_stds, tol, n) ==
  [row \in 1..NRows |->
     [j \in 1..n |->
        Score(data[IF Len(data) = 1 THEN 1 ELSE j][row],
              train_means[IF Len(train_means) = 1 THEN 1 ELSE j],
              train_stds[IF Len(train_stds) = 1 THEN 1 ELSE j], tol)]]

\* load_data's "execute" part and execute's scoring for a resolution r
StdExecuteWith(table, request, tol, r) ==
  IF r.outcome # "ok"
  THEN /\ stdLast' = Resolved("execute", table, request, tol, r)
       /\ UNCHANGED scoresFile
  ELSE IF ~meansFile.exists \/ ~stdsFile.exists
       \* np.loadtxt of a file that is not there
       THEN /\ stdLast' = [Resolved("execute", table, request, tol, r) EXCEPT
                             !.outcome = "OSError"]
            /\ UNCHANGED scoresFile
       ELSE IF BroadcastColumns(Len(r.data), Len(meansFile.lines)) < 0
            THEN /\ stdLast' = [Resolved("execute", table, request, tol, r) EXCEPT
                                  !.outcome = "ValueError"]
                 /\ UNCHANGED scoresFile
            ELSE /\ stdLast' = Resolved("execute", table, request, tol, r)
                 /\ scoresFile' =
                      [exists |-> TRUE,
                       rows |-> Scores(r.data, LoadTxt(meansFile), LoadTxt(stdsFile), tol,
                                       BroadcastColumns(Len(r.data),
                                                        Len(meansFile.lines)))]

\* execute(config): load_data with executionType "execute", then the scores
StdExecute ==
  /\ stdLast.mode = "none"
  /\ ~scoresFile.exists
  /\ \E table \in ExecuteTables, request \in Requests, tol \in TolValues :
       StdExecuteWith(table, request, tol, Resolve(table.columns, table.col, request))
  /\ UNCHANGED <<meansFile, stdsFile, stdTrained>>
  /\ UNCHANGED <<aeVars, ifVars>>

\* the process ends: the configuration object is gone, the files stay
StdExit ==
  /\ stdLast.mode # "none"
  /\ stdLast' = NoRun
  /\ UNCHANGED <<meansFile, stdsFile, scoresFile, stdTrained>>
  /\ UNCHANGED <<aeVars, ifVars>>

NextStd == StdTrain \/ StdExecute \/ StdExit

(***************************************************************************)
(* subsequence_if/algorithm.py: the windowed ensemble detector             *)
(***************************************************************************)
\* bounds: rows of an input file and the configured window_size
MaxT == 4
MaxWindow == 3

\* the requested channel lists and the channel value of this detector's runs
IFRequests ==
  {r \in Requests : Len(r.names) <= 1}
IFValues == {7}

\* what predict may return for a sample: sklearn's convention (+1 inlier, -1
\* outlier) or pyod's (0 inlier, 1 outlier); the fitted ensemble is opaque
Conventions == {{0 - 1, 1}, {0, 1}}

NoModel == [exists |-> FALSE, tiny |-> FALSE, num |-> 0, den |-> 1, n_features |-> 0]
NoVector == [exists |-> FALSE, values |-> <<>>]
NoIFRun ==
  [mode |-> "none", outcome |-> "none", window_size |-> 0, rows |-> 0,
   columns |-> <<>>, request |-> [given |-> FALSE, names |-> <<>>],
   target_channels |-> <<>>, target_channel_indices |-> <<>>, dataNames |-> <<>>,
   labelNames |-> <<>>, samples |-> 0, labels |-> {}, result |-> <<>>]

InitIFVars ==
  /\ ifModel = NoModel
  /\ ifScores = NoVector
  /\ ifLast = NoIFRun

\* labels.max(axis=1); labels[labels > 0] = 1
RowMax(labels, row) ==
  IF \E i \in 1..Len(labels) : labels[i][row] > 0 THEN 1 ELSE 0

\* contamination = labels.sum() / len(labels), np.nextafter(0, 1) in place of 0
Contamination(labels, rows) ==
  LET flags == [row \in 1..rows |-> RowMax(labels, row)]
      total == Cardinality({row \in 1..rows : flags[row] = 1})
  IN [tiny |-> total = 0, num |-> total, den |-> rows]

\* sliding_window_view(data, window_shape=window_size, axis=0).reshape(-1, ...):
\* the number of samples
WindowCount(rows, window_size) == rows - window_size + 1

\* np.pad that pads the front only
PadFront(result, width, value) ==
  [p \in 1..(Len(result) + width) |-> IF p <= width THEN value ELSE result[p - width]]

\* np.pad(result, width, constant_values=value)
Pad(result, width, value) ==
  [p \in 1..(Len(result) + 2 * width) |->
     IF p <= width \/ p > width + Len(result) THEN value ELSE result[p - width]]

\* a boundary that maps predict's -1 (outlier) to 1 and everything else to 0
TranslatedScores(result, window_size) ==
  Pad([j \in 1..Len(result) |-> IF result[j] = 0 - 1 THEN 1 ELSE 0], window_size \div 2, 0)

\* result = clf.predict(data); np.pad(result, window_size // 2, constant_values=0)
PaddedScores(result, window_size) == Pad(result, window_size \div 2, 0)

\* load_data of this detector: the resolution, then the row labels and the
\* contamination; labels.max(axis=1) of a label matrix without columns fails
ZeroSizeCheck(r) ==
  IF r.outcome = "ok" /\ Len(r.labels) = 0 THEN [r EXCEPT !.outcome = "ValueError"] ELSE r
IFLoadData(table, request, rows) == ZeroSizeCheck(Resolve(table.columns, table.col, request))

IFRun(mode, table, request, rows, window_size, r) ==
  [mode |-> mode, outcome |-> r.outcome, window_size |-> window_size, rows |-> rows,
   columns |-> table.columns, request |-> request,
   target_channels |-> r.target_channels,
   target_channel_indices |-> r.target_channel_indices, dataNames |-> r.dataNames,
   labelNames |-> r.labelNames, samples |-> 0, labels |-> {}, result |-> <<>>]

\* a run that from_sys_args stops: assert window_size % 2 == 1
IFRejected(mode, window_size) ==
  [NoIFRun EXCEPT !.mode = mode, !.outcome = "AssertionError",
                  !.window_size = window_size]

\* the pickle of the fitted ensemble
Fitted(c, n_features) ==
  [exists |-> TRUE, tiny |-> c.tiny, num |-> c.num, den |-> c.den,
   n_features |-> n_features]

\* train after from_sys_args, for load_data's resolution r
IFTrainWith(table, request, rows, window_size, r) ==
  IF r.outcome # "ok"
  THEN /\ ifLast' = IFRun("train", table, request, rows, window_size, r)
       /\ UNCHANGED ifModel
  ELSE IF window_size > rows
       \* sliding_window_view: window larger than the array
       THEN /\ ifLast' = [IFRun("train", table, request, rows, window_size, r) EXCEPT
                            !.outcome = "ValueError"]
            /\ UNCHANGED ifModel
       ELSE /\ ifLast' = [IFRun("train", table, request, rows, window_size, r) EXCEPT
                            !.samples = WindowCount(rows, window_size)]
            /\ ifModel' = Fitted(Contamination(r.labels, rows),
                                 window_size * Len(r.data))

\* train(config)
IFTrain ==
  /\ ifLast.mode = "none"
  /\ ~ifModel.exists
  /\ \E rows \in 1..MaxT, window_size \in 1..MaxWindow, request \in IFRequests :
       IF window_size % 2 # 1
       THEN /\ ifLast' = IFRejected("train", window_size)
            /\ UNCHANGED ifModel
       ELSE \E table \in Tables(rows, IFValues, LabelVectors(rows)) :
              IFTrainWith(table, request, rows, window_size,
                          IFLoadData(table, request, rows))
  /\ UNCHANGED ifScores
  /\ UNCHANGED <<aeVars, stdVars>>

\* execute after from_sys_args, for load_data's resolution r
IFExecuteWith(table, request, rows, window_size, r) ==
  IF r.outcome # "ok"
  THEN /\ ifLast' = IFRun("execute", table, request, rows, window_size, r)
       /\ UNCHANGED ifScores
  ELSE IF window_size > rows
       THEN /\ ifLast' = [IFRun("execute", table, request, rows, window_size, r) EXCEPT
                            !.outcome = "ValueError"]
            /\ UNCHANGED ifScores
       ELSE IF ~ifModel.exists
            \* open(config.modelInput, "rb")
            THEN /\ ifLast' = [IFRun("execute", table, request, rows, window_size, r)
                                 EXCEPT !.outcome = "FileNotFoundError",
                                        !.samples = WindowCount(rows, window_size)]
                 /\ UNCHANGED ifScores
            ELSE \E labels \in Conventions :
                 \E result \in [1..WindowCount(rows, window_size) -> labels] :
                   /\ ifLast' = [IFRun("execute", table, request, rows, window_size, r)
                                   EXCEPT !.samples = WindowCount(rows, window_size),
                                          !.labels = labels,
                                          !.result = result]
                   /\ ifScores' = [exists |-> TRUE,
                                   values |-> PaddedScores(result, window_size)]

\* execute(config)
IFExecute ==
  /\ ifLast.mode = "none"
  /\ ~ifScores.exists
  /\ \E rows \in 1..MaxT, window_size \in 1..MaxWindow, request \in IFRequests :
       IF window_size % 2 # 1
       THEN /\ ifLast' = IFRejected("execute", window_size)
            /\ UNCHANGED ifScores
       ELSE \E table \in Tables(rows, IFValues, CleanVectors(rows)) :
              IFExecuteWith(table, request, rows, window_size,
                            IFLoadData(table, request, rows))
  /\ UNCHANGED ifModel
  /\ UNCHANGED <<aeVars, stdVars>>

\* the process ends: the configuration object is gone, the files stay
IFExit ==
  /\ ifLast.mode # "none"
  /\ ifLast' = NoIFRun
  /\ UNCHANGED <<ifModel, ifScores>>
  /\ UNCHANGED <<aeVars, stdVars>>

NextIF == IFTrain \/ IFExecute \/ IFExit

(***************************************************************************)
(* The specifications                                                      *)
(***************************************************************************)
InitAE == InitAEVars /\ InitStdVars /\ InitIFVars
InitStd == InitAEVars /\ InitStdVars /\ InitIFVars /\ check = NoFile
           /\ tmpZip = NoFile /\ modelFile = NoFile
InitIF == InitStd

SpecAE == InitAE /\ [][NextAE]_vars
SpecStd == InitStd /\ [][NextStd]_vars
SpecIF == InitIF /\ [][NextIF]_vars

(***************************************************************************)
(* Properties of AutoEn.fit (SpecAE)                                       *)
(***************************************************************************)
\* the epochs of this run that reported a validation loss below every
\* earlier one, and the first epoch with the lowest loss of all
ImprovingEpochs(h) ==
  {e \in 1..Len(h) :
     h[e].kind = "num" /\ \A f \in 1..(e - 1) : h[f].kind = "num" => h[e].v < h[f].v}
BestEpoch(h) ==
  CHOOSE e \in ImprovingEpochs(h) : \A f \in ImprovingEpochs(h) : f <= e

\* the run has stopped between two epochs: interrupted before the next
\* epoch began, or ended by the epoch budget or by early stopping
StoppedAfterEpoch ==
  \/ pc = "interrupted" /\ stoppedAt = "train"
  \/ pc = "finished"

\* C1: when a run stops after N epochs of which at least one improved the
\* validation loss, model_path holds a complete archive of the checkpoint
\* written at the epoch with the best validation loss among epochs 1..N.
C1_ArchiveHoldsBestCheckpoint ==
  (StoppedAfterEpoch /\ ImprovingEpochs(history) # {})
    => modelFile = Weights(ThisRun, BestEpoch(history))

\* C1's case: a run interrupted after three epochs (below the budget) whose
\* best epoch is the second, archived while the third did not improve
C1_Witness ==
  /\ pc = "interrupted" /\ stoppedAt = "train"
  /\ epochsDone = 3 /\ epochsDone < Epochs
  /\ ImprovingEpochs(history) = {1, 2}
  /\ modelFile = Weights(ThisRun, 2)
  /\ moves = 3

\* C2: during an archive replacement model_path never shows a partially
\* written archive: the zip is built at the temporary path, model_path
\* changes only by the one move of the finished zip, and a reader loads
\* either the previous or the new complete archive.
C2_ArchiveReplacedByOneMove ==
  [][/\ modelFile'.exists => modelFile'.complete
     /\ readerSaw'.exists => readerSaw'.complete
     /\ modelFile' # modelFile =>
          /\ pc = "move"
          /\ tmpZip.exists /\ tmpZip.complete
          /\ modelFile' = tmpZip]_vars

\* C2's case: the new zip is half written at the temporary path while a
\* reader has loaded the previous archive of this run from model_path
C2_Witness ==
  /\ pc = "zip_write"
  /\ tmpZip.exists /\ ~tmpZip.complete
  /\ modelFile.exists /\ modelFile.complete /\ modelFile.run = ThisRun
  /\ tmpZip.epoch # modelFile.epoch
  /\ readerSaw = modelFile

\* C3: a run in which no epoch improves the validation loss produces no
\* archive at model_path, whatever the working directory held at its start.
C3_NoImprovementNoArchive ==
  (pc = "finished" /\ ImprovingEpochs(history) = {}) => moves = 0

(***************************************************************************)
(* Properties of load_data and of the baseline detector (SpecStd)          *)
(***************************************************************************)
Running == stdLast.mode # "none"
RunColumns == stdLast.table.columns

\* C4: when the requested channel list is absent, empty or names no channel
\* of the file, under either label schema, the resolution succeeds, selects
\* every channel in source order and yields one label column per channel,
\* the channel's own.
C4_DefaultSelectsEveryChannel ==
  (Running /\ SelectsAll(RunColumns, stdLast.request))
    => /\ stdLast.outcome # "KeyError"
       /\ stdLast.target_channels = DataColumns(RunColumns)
       /\ stdLast.labelNames =
            [i \in 1..Len(stdLast.target_channels) |->
               IsAnomaly(stdLast.target_channels[i].ch)]

\* C5: in a training run whose requested list overlaps the channels, column
\* i of the label matrix carries the labels of the channel in column i of the
\* data matrix: the statistics at position i are taken over exactly the rows
\* that same channel's label marks 0.
C5_StatisticsUseOwnLabels ==
  (stdLast.mode = "train" /\ stdLast.outcome = "ok"
     /\ ~SelectsAll(RunColumns, stdLast.request))
    => \A i \in 1..Len(stdLast.dataNames) :
         stdLast.rowsUsed[i] = RowsKept(OwnLabels(stdLast.table, stdLast.dataNames[i]))

\* C6: after the resolution target_channel_indices holds pairwise distinct
\* indices, each within 0 .. (number of selected channels - 1), and the data
\* matrix has one column per entry of the channel selection.
C6_IndicesDistinctAndInBounds ==
  (Running /\ stdLast.outcome # "KeyError")
    => LET idx == stdLast.target_channel_indices
           selected == AllUsedChannels(RunColumns, stdLast.request)
       IN /\ \A i, j \in 1..Len(idx) : i # j => idx[i] # idx[j]
          /\ \A i \in 1..Len(idx) : idx[i] \in 0..(Len(selected) - 1)
          /\ Len(stdLast.dataNames) = Len(stdLast.target_channels)

\* the run's label columns are the data columns' own (the runs C5 is about
\* aside)
Aligned ==
  \A i \in 1..Len(stdLast.dataNames) :
    /\ i <= Len(stdLast.labelNames)
    /\ stdLast.labelNames[i] = IsAnomaly(stdLast.dataNames[i].ch)

\* C7: for a channel that is the constant k on every row with every label 0,
\* train persists mean k and std 1, and a following execute scores a row
\* value k of that channel 0 for every tol >= 0.
C7_ConstantChannelBaseline ==
  /\ (stdLast.mode = "train" /\ stdLast.outcome = "ok" /\ Aligned)
       => \A i \in 1..Len(stdTrained) :
            stdTrained[i].clean
              => /\ LoadTxt(meansFile)[i] = Num(stdTrained[i].k)
                 /\ LoadTxt(stdsFile)[i] = Num(1)
  /\ (stdLast.mode = "execute" /\ stdLast.outcome = "ok" /\ Aligned
        /\ stdLast.dataNames = [i \in 1..Len(stdTrained) |-> stdTrained[i].name])
       => \A i \in 1..Len(stdTrained) : \A row \in 1..NRows :
            (/\ stdTrained[i].clean
             /\ stdLast.table.col[stdLast.dataNames[i]][row] = stdTrained[i].k
             /\ stdLast.tol >= 0)
              => scoresFile.rows[row][i] = 0

\* C10: whenever no channel remains after the resolution, the run fails
\* before any statistic is computed and before any artifact is written.
C10_NoChannelFailsBeforeWriting ==
  (Running /\ Len(stdLast.target_channels) = 0)
    => /\ stdLast.outcome # "ok"
       /\ stdLast.mode = "train" => ~meansFile.exists /\ ~stdsFile.exists
       /\ stdLast.mode = "execute" => ~scoresFile.exists

(***************************************************************************)
(* Properties of the windowed detector's execute (SpecIF)                  *)
(***************************************************************************)
Executed == ifLast.mode = "execute" /\ ifLast.outcome = "ok"

\* C8: an execute that writes scores had an odd window W and T >= W rows;
\* the windowed input has T - W + 1 samples, the score vector has exactly T
\* elements, its first and last W div 2 are the padding value 0, and the
\* prediction of sample j sits at position j + W div 2.
C8_ScoresCoverTheSeries ==
  Executed =>
    LET W == ifLast.window_size
        T == ifLast.rows
        h == W \div 2
        scores == ifScores.values
    IN /\ W % 2 = 1 /\ T >= W
       /\ ifLast.samples = T - W + 1
       /\ Len(ifLast.result) = ifLast.samples
       /\ Len(scores) = T
       /\ \A p \in 1..h : scores[p] = 0 /\ scores[T + 1 - p] = 0
       /\ \A j \in 1..ifLast.samples : scores[j + h] = ifLast.result[j]

\* C8's case: window 3 over 4 rows, two samples with different predictions
C8_Witness ==
  /\ Executed
  /\ ifLast.window_size = 3 /\ ifLast.rows = 4
  /\ ifLast.result[1] # ifLast.result[2]
  /\ Len(ifScores.values) = 4

\* C9 as stated: with a library whose predict returns +1 or -1, every
\* element of the written score vector is 0 or 1.
C9_ScoresAreBinary ==
  (Executed /\ ifLast.labels = {0 - 1, 1})
    => \A p \in 1..Len(ifScores.values) : ifScores.values[p] \in {0, 1}

\* C9 as amended: every element of the written score vector is the padding
\* value 0 or a label exactly as predict returned it: a -1 is written as
\* -1, and the vector is binary only when predict's labels are.
C9_ScoresAreUntranslatedLabels ==
  Executed =>
    /\ \A p \in 1..Len(ifScores.values) : ifScores.values[p] \in ifLast.labels \cup {0}
    /\ \A j \in 1..Len(ifLast.result) :
         ifLast.result[j] = 0 - 1
           => ifScores.values[j + ifLast.window_size \div 2] = 0 - 1

\* C9's case: predict returned -1 for a sample and the score vector holds it
C9_Witness ==
  /\ Executed
  /\ ifLast.labels = {0 - 1, 1}
  /\ ifLast.window_size = 3
  /\ \E j \in 1..Len(ifLast.result) :
       ifLast.result[j] = 0 - 1 /\ ifScores.values[j + 1] = 0 - 1
====
